---------------------------- MODULE Spec2Model ----------------------------
(***************************************************************************)
(* SecureBlog-RS: the build pipeline of src/rust/src/main.rs (main,        *)
(* load_posts, generate_manifest) and the security module of               *)
(* src/rust/src/security.rs (JS_PATTERNS, validate_output,                 *)
(* validate_html_file, validate_css_file, sanitize_html).                  *)
(*                                                                         *)
(* Text is a sequence of one-character strings, a path is a sequence of    *)
(* components (each a text), a regular expression is a record holding its  *)
(* source and its alternatives, each a sequence of atoms, and matching is  *)
(* computed by the operators below on the characters.                      *)
(***************************************************************************)
EXTENDS Integers, Sequences, FiniteSets, TLC

\* Option<T>: None, or Some(x).
None == <<>>
Some(x) == <<x>>

Max(S) == CHOOSE x \in S : \A y \in S : y <= x
Min(S) == CHOOSE x \in S : \A y \in S : x <= y

(***************************************************************************)
(* The regex crate, as far as the patterns of security.rs use it.          *)
(***************************************************************************)
\* \w and \s over the characters the model's texts are written in.
WordChars == {"a","b","c","d","e","f","g","h","i","j","k","l","m","n","o","p","q","r","s","t","u","v","w","x","y","z","A","B","C","D","E","F","G","H","I","J","K","L","M","N","O","P","Q","R","S","T","U","V","W","X","Y","Z","0","1","2","3","4","5","6","7","8","9","_"}
SpaceChars == {" ", "\t", "\n", "\r", "\f"}
Quotes == {"\"", "'"}

\* An atom consumes lo..hi characters (any number from lo when inf) that are
\* in cs (k = "set") or not in cs (k = "nset"); k = "wb" is \b. cap marks the
\* atoms of the capture group the code reads.
Atom(k, cs, lo, hi, inf) == [k |-> k, cs |-> cs, lo |-> lo, hi |-> hi, inf |-> inf, cap |-> FALSE]
Lit(s) == [i \in 1..Len(s) |-> Atom("set", {s[i]}, 1, 1, FALSE)]
Star(cs) == <<Atom("set", cs, 0, 0, TRUE)>>
Plus(cs) == <<Atom("set", cs, 1, 1, TRUE)>>
Opt(cs) == <<Atom("set", cs, 0, 1, FALSE)>>
One(cs) == <<Atom("set", cs, 1, 1, FALSE)>>
NotStar(cs) == <<Atom("nset", cs, 0, 0, TRUE)>>
NotPlus(cs) == <<Atom("nset", cs, 1, 1, TRUE)>>
WordBoundary == <<Atom("wb", {}, 0, 0, FALSE)>>
Group(re) == [i \in 1..Len(re) |-> [re[i] EXCEPT !.cap = TRUE]]
Regex(src, alts) == [src |-> src, alts |-> alts]

InClass(a, c) == IF a.k = "set" THEN c \in a.cs ELSE c \notin a.cs

IsWordAt(t, i) == i >= 1 /\ i <= Len(t) /\ t[i] \in WordChars

\* \b between t[i-1] and t[i].
IsBoundary(t, i) == IsWordAt(t, i - 1) # IsWordAt(t, i)

\* How many characters from position i on the atom can consume.
RECURSIVE RunLen(_, _, _, _)
RunLen(a, t, i, n) ==
    IF i + n <= Len(t) /\ InClass(a, t[i + n]) /\ (a.inf \/ n < a.hi)
    THEN RunLen(a, t, i, n + 1)
    ELSE n

\* The matches of atoms k.. of re at position i of t: each the position after
\* the match and the text the capture group consumed.
RECURSIVE Ends(_, _, _, _, _)
Ends(re, t, i, k, cap) ==
    IF k > Len(re) THEN {[e |-> i, cap |-> cap]}
    ELSE LET a == re[k] IN
         IF a.k = "wb"
         THEN IF IsBoundary(t, i) THEN Ends(re, t, i, k + 1, cap) ELSE {}
         ELSE UNION { Ends(re, t, i + n, k + 1,
                           IF a.cap THEN cap \o SubSeq(t, i, i + n - 1) ELSE cap)
                      : n \in a.lo..RunLen(a, t, i, 0) }

MatchesAt(r, t, i) == UNION { Ends(alt, t, i, 1, <<>>) : alt \in r.alts }

\* Regex::is_match
is_match(r, t) == \E i \in 1..(Len(t) + 1) : MatchesAt(r, t, i) # {}

\* Regex::captures_iter: the successive non-overlapping matches, leftmost
\* first, each quantifier greedy; the text of the capture group of each.
RECURSIVE captures_iter(_, _, _)
captures_iter(r, t, from) ==
    LET starts == {i \in from..(Len(t) + 1) : MatchesAt(r, t, i) # {}} IN
    IF starts = {} THEN <<>>
    ELSE LET s == Min(starts)
             ms == MatchesAt(r, t, s)
             e == Max({m.e : m \in ms})
             m == CHOOSE x \in ms : x.e = e
         IN <<m.cap>> \o captures_iter(r, t, IF e = s THEN e + 1 ELSE e)

\* str::starts_with(char)
starts_with(s, c) == Len(s) >= 1 /\ s[1] = c

(***************************************************************************)
(* security.rs: JS_PATTERNS                                                *)
(***************************************************************************)
\* JS_PATTERNS with the first pattern misspelt.
JS_PATTERNS_misspelt == <<
    Regex("<Script\\b", {Lit(<<"<","S","c","r","i","p","t">>) \o WordBoundary}),
    Regex("javascript:", {Lit(<<"j","a","v","a","s","c","r","i","p","t",":">>)}),
    Regex("on\\w+\\s*=", {Lit(<<"o","n">>) \o Plus(WordChars) \o Star(SpaceChars) \o Lit(<<"=">>)}),
    Regex("<iframe\\b", {Lit(<<"<","i","f","r","a","m","e">>) \o WordBoundary}),
    Regex("<object\\b", {Lit(<<"<","o","b","j","e","c","t">>) \o WordBoundary}),
    Regex("<embed\\b", {Lit(<<"<","e","m","b","e","d">>) \o WordBoundary}),
    Regex("<applet\\b", {Lit(<<"<","a","p","p","l","e","t">>) \o WordBoundary}),
    Regex("eval\\s*\\(", {Lit(<<"e","v","a","l">>) \o Star(SpaceChars) \o Lit(<<"(">>)}),
    Regex("Function\\s*\\(", {Lit(<<"F","u","n","c","t","i","o","n">>) \o Star(SpaceChars) \o Lit(<<"(">>)}),
    Regex("setTimeout\\s*\\(", {Lit(<<"s","e","t","T","i","m","e","o","u","t">>) \o Star(SpaceChars) \o Lit(<<"(">>)}),
    Regex("setInterval\\s*\\(", {Lit(<<"s","e","t","I","n","t","e","r","v","a","l">>) \o Star(SpaceChars) \o Lit(<<"(">>)}),
    Regex("\\.innerHTML\\s*=", {Lit(<<".","i","n","n","e","r","H","T","M","L">>) \o Star(SpaceChars) \o Lit(<<"=">>)}),
    Regex("document\\.write", {Lit(<<"d","o","c","u","m","e","n","t",".","w","r","i","t","e">>)}),
    Regex("window\\.location", {Lit(<<"w","i","n","d","o","w",".","l","o","c","a","t","i","o","n">>)}) >>

JS_PATTERNS == <<
    Regex("<script\\b", {Lit(<<"<","s","c","r","i","p","t">>) \o WordBoundary}),
    Regex("javascript:", {Lit(<<"j","a","v","a","s","c","r","i","p","t",":">>)}),
    Regex("on\\w+\\s*=", {Lit(<<"o","n">>) \o Plus(WordChars) \o Star(SpaceChars) \o Lit(<<"=">>)}),
    Regex("<iframe\\b", {Lit(<<"<","i","f","r","a","m","e">>) \o WordBoundary}),
    Regex("<object\\b", {Lit(<<"<","o","b","j","e","c","t">>) \o WordBoundary}),
    Regex("<embed\\b", {Lit(<<"<","e","m","b","e","d">>) \o WordBoundary}),
    Regex("<applet\\b", {Lit(<<"<","a","p","p","l","e","t">>) \o WordBoundary}),
    Regex("eval\\s*\\(", {Lit(<<"e","v","a","l">>) \o Star(SpaceChars) \o Lit(<<"(">>)}),
    Regex("Function\\s*\\(", {Lit(<<"F","u","n","c","t","i","o","n">>) \o Star(SpaceChars) \o Lit(<<"(">>)}),
    Regex("setTimeout\\s*\\(", {Lit(<<"s","e","t","T","i","m","e","o","u","t">>) \o Star(SpaceChars) \o Lit(<<"(">>)}),
    Regex("setInterval\\s*\\(", {Lit(<<"s","e","t","I","n","t","e","r","v","a","l">>) \o Star(SpaceChars) \o Lit(<<"(">>)}),
    Regex("\\.innerHTML\\s*=", {Lit(<<".","i","n","n","e","r","H","T","M","L">>) \o Star(SpaceChars) \o Lit(<<"=">>)}),
    Regex("document\\.write", {Lit(<<"d","o","c","u","m","e","n","t",".","w","r","i","t","e">>)}),
    Regex("window\\.location", {Lit(<<"w","i","n","d","o","w",".","l","o","c","a","t","i","o","n">>)}) >>

\* style\s*=\s*["'][^"']*["']
style_regex ==
    Regex("style", {Lit(<<"s","t","y","l","e">>) \o Star(SpaceChars) \o Lit(<<"=">>) \o Star(SpaceChars)
                    \o One(Quotes) \o NotStar(Quotes) \o One(Quotes)})

HttpUrl == Group(Lit(<<"h","t","t","p">>) \o Opt({"s"}) \o Lit(<<":","/","/">>) \o NotPlus(Quotes))

\* (src|href)\s*=\s*["'](https?://[^"']+)["']
external_regex ==
    LET rest == Star(SpaceChars) \o Lit(<<"=">>) \o Star(SpaceChars) \o One(Quotes)
                \o HttpUrl \o One(Quotes)
    IN Regex("external", {Lit(<<"s","r","c">>) \o rest, Lit(<<"h","r","e","f">>) \o rest})

\* javascript:|expression\s*\(|behavior\s*:
js_in_css ==
    Regex("js_in_css", {Lit(<<"j","a","v","a","s","c","r","i","p","t",":">>),
                        Lit(<<"e","x","p","r","e","s","s","i","o","n">>) \o Star(SpaceChars) \o Lit(<<"(">>),
                        Lit(<<"b","e","h","a","v","i","o","r">>) \o Star(SpaceChars) \o Lit(<<":">>)})

\* @import\s+["']?(https?://[^"']+)
import_regex ==
    Regex("import", {Lit(<<"@","i","m","p","o","r","t">>) \o Plus(SpaceChars) \o Opt(Quotes) \o HttpUrl})

(***************************************************************************)
(* The file system: an object of a directory tree is a record              *)
(*   path   its path below the root, a sequence of components;             *)
(*   kind   "file" (a regular file), "dir" or "symlink";                   *)
(*   walk   "ok", or "err" when WalkDir yields an Err for it (its          *)
(*          directory cannot be listed, its metadata cannot be read);      *)
(*   read   "ok", "denied" (no read succeeds) or "not_utf8" (fs::read      *)
(*          succeeds, fs::read_to_string fails);                           *)
(*   bytes  its content.                                                   *)
(* WalkDir yields the objects of a tree in directory order, which is no    *)
(* particular order: a tree is the sequence of the objects as yielded.     *)
(***************************************************************************)
File(path, kind, walk, read, bytes) ==
    [path |-> path, kind |-> kind, walk |-> walk, read |-> read, bytes |-> bytes]

\* Path::extension of the last component; to_str never fails on these names.
extension(path) ==
    LET name == path[Len(path)]
        dots == {i \in 1..Len(name) : name[i] = "."}
    IN IF dots = {} \/ name = <<".",".">> \/ Max(dots) = 1 THEN None
       ELSE Some(SubSeq(name, Max(dots) + 1, Len(name)))

\* std::fs::read_to_string
read_to_string(f) ==
    IF f.kind = "file" /\ f.read = "ok" THEN [ok |-> TRUE, text |-> f.bytes]
    ELSE [ok |-> FALSE, text |-> <<>>]

\* std::fs::read
read(f) ==
    IF f.kind = "file" /\ f.read # "denied" THEN [ok |-> TRUE, bytes |-> f.bytes]
    ELSE [ok |-> FALSE, bytes |-> <<>>]

\* .filter_map(|e| e.ok()).filter(|e| e.file_type().is_file())
IsYieldedFile(f) == f.walk = "ok" /\ f.kind = "file"

(***************************************************************************)
(* main.rs: SecurityPolicy                                                 *)
(***************************************************************************)
MaxFileSize == 10 * 1024 * 1024

SecurityPolicy(js, styles, external) ==
    [no_javascript |-> js, no_inline_styles |-> styles, no_external |-> external,
     max_file_size |-> MaxFileSize]

DefaultPolicy == SecurityPolicy(TRUE, FALSE, TRUE)

Policies == {SecurityPolicy(j, s, x) : j \in BOOLEAN, s \in BOOLEAN, x \in BOOLEAN}

(***************************************************************************)
(* security.rs: validate_html_file, validate_css_file, validate_output     *)
(* A violation is the message pushed: its kind, what was found, the path.  *)
(***************************************************************************)
Ok(violations) == [ok |-> TRUE, violations |-> violations]
Err(violations) == [ok |-> FALSE, violations |-> violations]

\* for pattern in JS_PATTERNS.iter(), from the k-th on
RECURSIVE js_pattern_violations(_, _, _)
js_pattern_violations(content, path, k) ==
    IF k > Len(JS_PATTERNS) THEN <<>>
    ELSE (IF is_match(JS_PATTERNS[k], content)
          THEN << <<"JavaScript pattern", JS_PATTERNS[k].src, path>> >>
          ELSE <<>>)
         \o js_pattern_violations(content, path, k + 1)

\* for cap in external_regex.captures_iter(&content)
RECURSIVE external_violations(_, _, _)
external_violations(urls, path, k) ==
    IF k > Len(urls) THEN <<>>
    ELSE (IF ~starts_with(urls[k], "/") /\ ~starts_with(urls[k], "#")
          THEN << <<"External resource", urls[k], path>> >>
          ELSE <<>>)
         \o external_violations(urls, path, k + 1)

\* validate_html_file with the inline-style check not guarded by the policy.
validate_html_file_unguarded(f, policy, violations) ==
    LET content == read_to_string(f) IN
    IF ~content.ok THEN Err(violations)
    ELSE LET js == IF policy.no_javascript
                   THEN js_pattern_violations(content.text, f.path, 1) ELSE <<>>
             styles == IF is_match(style_regex, content.text)
                       THEN << <<"Inline styles", <<>>, f.path>> >> ELSE <<>>
             ext == IF policy.no_external
                    THEN external_violations(captures_iter(external_regex, content.text, 1),
                                             f.path, 1)
                    ELSE <<>>
         IN Ok(violations \o js \o styles \o ext)

validate_html_file(f, policy, violations) ==
    LET content == read_to_string(f) IN
    IF ~content.ok THEN Err(violations)
    ELSE LET js == IF policy.no_javascript
                   THEN js_pattern_violations(content.text, f.path, 1) ELSE <<>>
             styles == IF policy.no_inline_styles /\ is_match(style_regex, content.text)
                       THEN << <<"Inline styles", <<>>, f.path>> >> ELSE <<>>
             ext == IF policy.no_external
                    THEN external_violations(captures_iter(external_regex, content.text, 1),
                                             f.path, 1)
                    ELSE <<>>
         IN Ok(violations \o js \o styles \o ext)

validate_css_file(f, policy, violations) ==
    LET content == read_to_string(f) IN
    IF ~content.ok THEN Err(violations)
    ELSE LET js == IF policy.no_javascript /\ is_match(js_in_css, content.text)
                   THEN << <<"JavaScript in CSS", <<>>, f.path>> >> ELSE <<>>
             urls == captures_iter(import_regex, content.text, 1)
             imports == IF policy.no_external
                        THEN [k \in 1..Len(urls) |-> <<"External CSS import", urls[k], f.path>>]
                        ELSE <<>>
         IN Ok(violations \o js \o imports)

\* The body of validate_output's loop for one yielded file.
validate_entry(f, policy, violations) ==
    LET ext == extension(f.path) IN
    IF ext = Some(<<"h","t","m","l">>) \/ ext = Some(<<"h","t","m">>) THEN validate_html_file(f, policy, violations)
    ELSE IF ext = Some(<<"c","s","s">>) THEN validate_css_file(f, policy, violations)
    ELSE IF ext = Some(<<"j","s">>) /\ policy.no_javascript
         THEN Ok(Append(violations, <<"JavaScript file found", <<>>, f.path>>))
    ELSE Ok(violations)

(***************************************************************************)
(* main.rs: generate_manifest                                              *)
(***************************************************************************)
\* default_output(): "dist"; default_content(): "content"
OutputDir == << <<"d","i","s","t">> >>
ContentDir == << <<"c","o","n","t","e","n","t">> >>

\* Path::strip_prefix
strip_prefix(path, base) ==
    IF Len(path) >= Len(base) /\ SubSeq(path, 1, Len(base)) = base
    THEN [ok |-> TRUE, path |-> SubSeq(path, Len(base) + 1, Len(path))]
    ELSE [ok |-> FALSE, path |-> <<>>]

\* Path::display().to_string(): the components joined by "/".
RECURSIVE display(_)
display(path) ==
    IF path = <<>> THEN <<>>
    ELSE IF Len(path) = 1 THEN path[1]
    ELSE path[1] \o <<"/">> \o display(Tail(path))

\* The characters texts are written in; a byte's value is its place here.
Charset == <<" ","!","\"","#","'","(",")",".","/",":",";","<","=",">","@","A","B","C","D","E","F","G","H","I","J","K","L","M","N","O","P","Q","R","S","T","U","V","W","X","Y","Z","_","a","b","c","d","e","f","g","h","i","j","k","l","m","n","o","p","q","r","s","t","u","v","w","x","y","z","{","}","0","1","2","3","4","5","6","7","8","9","&">>
Byte(c) == CHOOSE i \in 1..Len(Charset) : Charset[i] = c

\* Sha256::new / update / finalize. The digest is modelled by a polynomial
\* hash of the bytes, 16 bits wide: what the model keeps of SHA-256 is that
\* the digest is a function of the raw bytes alone that tells the model's
\* contents apart.
RECURSIVE Sha256From(_, _)
Sha256From(h, bytes) ==
    IF bytes = <<>> THEN h
    ELSE Sha256From((h * 31 + Byte(bytes[1])) % 65536, Tail(bytes))
Sha256(bytes) == Sha256From(7, bytes)

\* format!("{:x}", digest)
HexDigits == <<"0","1","2","3","4","5","6","7","8","9","a","b","c","d","e","f">>
RECURSIVE Hex(_)
Hex(n) == IF n < 16 THEN <<HexDigits[n + 1]>> ELSE Hex(n \div 16) \o <<HexDigits[(n % 16) + 1]>>

\* The body of generate_manifest's loop for one yielded file: the entry pushed.
manifest_entry(f, output_dir, files) ==
    LET relative == strip_prefix(f.path, output_dir)
        content == read(f)
    IN IF ~relative.ok \/ ~content.ok THEN [ok |-> FALSE, files |-> files]
       ELSE [ok |-> TRUE,
             files |-> Append(files, [path |-> display(relative.path),
                                      size |-> Len(content.bytes),
                                      sha256 |-> Hex(Sha256(content.bytes))])]

\* serde_json::json!({version, generated, generator, files}); the timestamp
\* is not modelled.
manifest_value(files) == [version |-> "1.0", generator |-> "secureblog-rs", files |-> files]

(***************************************************************************)
(* main.rs: load_post, load_posts                                          *)
(* A source document is a file system object with, instead of its bytes,   *)
(* its length (len) and what the markdown module makes of it: parse is     *)
(* "ok" or "bad" (parse_frontmatter or render_markdown fails), date and    *)
(* draft are the frontmatter's.                                            *)
(***************************************************************************)
Doc(path, kind, walk, rd, len, parse, date, draft) ==
    [path |-> path, kind |-> kind, walk |-> walk, read |-> rd, len |-> len,
     parse |-> parse, date |-> date, draft |-> draft]

\* .filter_map(|e| e.ok()).filter(|e| extension is "md" or "markdown")
IsYieldedMarkdown(d) ==
    d.walk = "ok" /\ (extension(d.path) = Some(<<"m","d">>) \/ extension(d.path) = Some(<<"m","a","r","k","d","o","w","n">>))

load_post(d, policy) ==
    IF ~(d.kind = "file" /\ d.read = "ok") THEN [ok |-> FALSE, err |-> "Failed to read post"]
    ELSE IF d.len > policy.max_file_size THEN [ok |-> FALSE, err |-> "Post exceeds maximum size"]
    ELSE IF d.parse # "ok" THEN [ok |-> FALSE, err |-> "markdown"]
    ELSE [ok |-> TRUE, post |-> [source |-> d.path, date |-> d.date, draft |-> d.draft]]

\* Vec::sort_by(|a, b| b.meta.date.cmp(&a.meta.date)): a stable sort, newest first.
RECURSIVE InsertByDate(_, _)
InsertByDate(sorted, p) ==
    IF sorted = <<>> THEN <<p>>
    ELSE IF Head(sorted).date >= p.date THEN <<Head(sorted)>> \o InsertByDate(Tail(sorted), p)
    ELSE <<p>> \o sorted
RECURSIVE sort_by_date(_)
sort_by_date(ps) ==
    IF ps = <<>> THEN <<>>
    ELSE InsertByDate(sort_by_date(SubSeq(ps, 1, Len(ps) - 1)), ps[Len(ps)])

IsPublished(p) == ~p.draft

\* The tail of load_posts: the sort, and in release builds the draft filter.
sort_and_retain(ps, release_build) ==
    IF release_build THEN SelectSeq(sort_by_date(ps), IsPublished) ELSE sort_by_date(ps)

(***************************************************************************)
(* security.rs: sanitize_html, lines 137-171. The function configures an   *)
(* ammonia::Builder and returns builder.clean(html). The HTML parser and   *)
(* the cleaner are the ammonia crate's: the input is modelled as the       *)
(* document's nodes as written (a text node holds its characters, an       *)
(* element its tag as spelled, its attributes and its children), Parse is  *)
(* the parser's normalisation of tag names, clean the allow-list filter    *)
(* and Serialize the output's text.                                        *)
(***************************************************************************)
Text(t) == [type |-> "text", text |-> t, tag |-> <<>>, attrs |-> <<>>, kids |-> <<>>]
Elem(tag, attrs, kids) == [type |-> "elem", text |-> <<>>, tag |-> tag, attrs |-> attrs, kids |-> kids]
Attr(name, value) == [name |-> name, value |-> value]

Upper == <<"A","B","C","D","E","F","G","H","I","J","K","L","M","N","O","P","Q","R","S","T","U","V","W","X","Y","Z">>
Lower == <<"a","b","c","d","e","f","g","h","i","j","k","l","m","n","o","p","q","r","s","t","u","v","w","x","y","z">>
ToLowerChar(c) ==
    IF \E i \in 1..Len(Upper) : Upper[i] = c
    THEN Lower[CHOOSE i \in 1..Len(Upper) : Upper[i] = c] ELSE c
to_lowercase(s) == [i \in 1..Len(s) |-> ToLowerChar(s[i])]

\* str::contains
contains(s, pat) == \E i \in 1..(Len(s) - Len(pat) + 1) : SubSeq(s, i, i + Len(pat) - 1) = pat

\* lines 141-149
allowed_tags == {
    <<"p">>, <<"b","r">>, <<"s","t","r","o","n","g">>, <<"e","m">>, <<"u">>, <<"i">>, <<"b">>,
    <<"h","1">>, <<"h","2">>, <<"h","3">>, <<"h","4">>, <<"h","5">>, <<"h","6">>,
    <<"u","l">>, <<"o","l">>, <<"l","i">>, <<"d","l">>, <<"d","t">>, <<"d","d">>,
    <<"a">>, <<"i","m","g">>, <<"b","l","o","c","k","q","u","o","t","e">>, <<"c","o","d","e">>, <<"p","r","e">>,
    <<"t","a","b","l","e">>, <<"t","h","e","a","d">>, <<"t","b","o","d","y">>, <<"t","r">>, <<"t","h">>, <<"t","d">>,
    <<"h","r">>, <<"d","i","v">>, <<"s","p","a","n">>, <<"a","r","t","i","c","l","e">>, <<"s","e","c","t","i","o","n">>,
    <<"h","e","a","d","e","r">>, <<"f","o","o","t","e","r">>, <<"n","a","v">>, <<"a","s","i","d","e">>, <<"m","a","i","n">> }

\* lines 154-158
event_handlers == {
    <<"o","n","c","l","i","c","k">>, <<"o","n","l","o","a","d">>, <<"o","n","e","r","r","o","r">>, <<"o","n","m","o","u","s","e","o","v","e","r">>, <<"o","n","m","o","u","s","e","o","u","t">>,
    <<"o","n","k","e","y","d","o","w","n">>, <<"o","n","k","e","y","u","p">>, <<"o","n","f","o","c","u","s">>, <<"o","n","b","l","u","r">>, <<"o","n","c","h","a","n","g","e">>,
    <<"o","n","s","u","b","m","i","t">>, <<"o","n","d","b","l","c","l","i","c","k">>, <<"o","n","m","o","u","s","e","e","n","t","e","r">>, <<"o","n","m","o","u","s","e","l","e","a","v","e">> }

\* lines 161-163
url_schemes == { <<"h","t","t","p">>, <<"h","t","t","p","s">>, <<"m","a","i","l","t","o">>, <<"#">> }

\* The builder sanitize_html configures.
Builder(policy) ==
    [tags |-> allowed_tags,
     rm_attributes |-> event_handlers \cup (IF policy.no_inline_styles THEN { <<"s","t","y","l","e">> } ELSE {}),
     url_schemes |-> url_schemes]

\* The elements the cleaner removes together with their content.
clean_content_tags == { <<"s","c","r","i","p","t">>, <<"s","t","y","l","e">> }
url_attributes == { <<"h","r","e","f">>, <<"s","r","c">> }
void_tags == { <<"b","r">>, <<"i","m","g">>, <<"h","r">> }

RECURSIVE Parse(_)
Parse(nodes) ==
    [i \in 1..Len(nodes) |->
        IF nodes[i].type = "text" THEN nodes[i]
        ELSE Elem(to_lowercase(nodes[i].tag), nodes[i].attrs, Parse(nodes[i].kids))]

\* The scheme of a URL: the text before its first ":", None for a relative URL.
scheme(url) ==
    LET cs == {i \in 1..Len(url) : url[i] = ":"} IN
    IF cs = {} THEN None ELSE Some(to_lowercase(SubSeq(url, 1, Min(cs) - 1)))

keeps_attribute(b, a) ==
    /\ a.name \notin b.rm_attributes
    /\ a.name \in url_attributes =>
           (scheme(a.value) = None \/ scheme(a.value)[1] \in b.url_schemes)

RECURSIVE FilterAttrs(_, _)
FilterAttrs(b, attrs) ==
    IF attrs = <<>> THEN <<>>
    ELSE (IF keeps_attribute(b, Head(attrs)) THEN <<Head(attrs)>> ELSE <<>>)
         \o FilterAttrs(b, Tail(attrs))

\* Builder::clean on the parsed nodes: an element of clean_content_tags goes
\* with its content, an element off the allow-list is replaced by its
\* (cleaned) children, an allowed element keeps its permitted attributes.
RECURSIVE clean(_, _)
clean(b, nodes) ==
    IF nodes = <<>> THEN <<>>
    ELSE LET n == Head(nodes) IN
         (IF n.type = "text" THEN <<n>>
          ELSE IF n.tag \in clean_content_tags THEN <<>>
          ELSE IF n.tag \in b.tags
               THEN <<Elem(n.tag, FilterAttrs(b, n.attrs), clean(b, n.kids))>>
          ELSE clean(b, n.kids))
         \o clean(b, Tail(nodes))

RECURSIVE Escape(_, _)
Escape(s, attr_mode) ==
    IF s = <<>> THEN <<>>
    ELSE (IF s[1] = "&" THEN <<"&","a","m","p",";">>
          ELSE IF s[1] = "\"" /\ attr_mode THEN <<"&","q","u","o","t",";">>
          ELSE IF s[1] = "<" /\ ~attr_mode THEN <<"&","l","t",";">>
          ELSE IF s[1] = ">" /\ ~attr_mode THEN <<"&","g","t",";">>
          ELSE <<s[1]>>)
         \o Escape(Tail(s), attr_mode)

RECURSIVE SerializeAttrs(_)
SerializeAttrs(attrs) ==
    IF attrs = <<>> THEN <<>>
    ELSE <<" ">> \o Head(attrs).name \o <<"=","\"">> \o Escape(Head(attrs).value, TRUE) \o <<"\"">>
         \o SerializeAttrs(Tail(attrs))

RECURSIVE Serialize(_)
Serialize(nodes) ==
    IF nodes = <<>> THEN <<>>
    ELSE LET n == Head(nodes) IN
         (IF n.type = "text" THEN Escape(n.text, FALSE)
          ELSE <<"<">> \o n.tag \o SerializeAttrs(n.attrs) \o <<">">>
               \o (IF n.tag \in void_tags THEN <<>>
                   ELSE Serialize(n.kids) \o <<"<","/">> \o n.tag \o <<">">>))
         \o Serialize(Tail(nodes))

\* sanitize_html returning the document without cleaning it.
sanitize_html_unclean(html, policy) == Serialize(Parse(html))

sanitize_html(html, policy) == Serialize(clean(Builder(policy), Parse(html)))

MaxNodes == 2

Hello == Elem(<<"p">>, <<>>, <<Text(<<"H","e","l","l","o">>)>>)
ScriptElem == Elem(<<"s","c","r","i","p","t">>, <<>>, <<Text(<<"a","l","e","r","t","(","1",")">>)>>)

\* The nodes the model's documents are made of.
NodePool == <<
    Hello,
    ScriptElem,
    Elem(<<"S","C","R","I","P","T">>, <<>>, <<Text(<<"x">>)>>),
    Text(<<"<","s","c","r","i","p","t">>),
    Elem(<<"f","o","r","m">>, <<>>, <<Hello>>),
    Elem(<<"d","i","v">>, <<Attr(<<"o","n","c","l","i","c","k">>, <<"a","(",")">>)>>, <<ScriptElem, Text(<<"C","l","i","c","k">>)>>),
    Elem(<<"a">>, <<Attr(<<"h","r","e","f">>, <<"j","a","v","a","s","c","r","i","p","t",":","x">>)>>, <<Text(<<"L">>)>>),
    Elem(<<"p">>, <<Attr(<<"s","t","y","l","e">>, <<"c">>), Attr(<<"t","i","t","l","e">>, <<"a","\"","b">>)>>, <<Text(<<"S","&">>)>>) >>

Documents == UNION { [1..k -> 1..Len(NodePool)] : k \in 0..MaxNodes }
DocumentOf(d) == [i \in 1..Len(d) |-> NodePool[d[i]]]

(***************************************************************************)
(* Bounds, and the objects the model's directory trees are made of.        *)
(***************************************************************************)
MaxFiles == 2
MaxDocs == 2
NumWorkers == 2

Html(name) == OutputDir \o <<name>>

\* What generate_site may leave in the output directory.
OutputPool == <<
    File(Html(<<"i","n","d","e","x",".","h","t","m","l">>), "file", "ok", "ok", <<"<","p",">","H","i","<","/","p",">">>),
    File(Html(<<"p","o","s","t",".","h","t","m","l">>), "file", "ok", "ok", <<"<","s","c","r","i","p","t",">","a","(",")","<","/","s","c","r","i","p","t",">">>),
    File(Html(<<"x",".","h","t","m","l">>), "file", "ok", "ok", <<"<","s","c","r","i","p","t","s",">">>),
    File(Html(<<"l","i","n","k",".","h","t","m","l">>), "file", "ok", "ok", <<"<","a"," ","h","r","e","f","=","\"","h","t","t","p","s",":","/","/","e",".","x","/","\""," ","o","n","c","l","i","c","k","=","\"","f","\"",">">>),
    File(Html(<<"s","t",".","h","t","m">>), "file", "ok", "ok", <<"<","p"," ","s","t","y","l","e","=","\"","a","\"",">">>),
    File(Html(<<"a","p","p",".","j","s">>), "file", "ok", "ok", <<"x">>),
    File(Html(<<"l","o","c","k",".","j","s">>), "file", "ok", "denied", <<"x">>),
    File(Html(<<"s",".","c","s","s">>), "file", "ok", "ok", <<"a","{","b","e","h","a","v","i","o","r",":","u","r","l","(","x",")","}">>),
    File(Html(<<"i",".","c","s","s">>), "file", "ok", "ok", <<"@","i","m","p","o","r","t"," ","\"","h","t","t","p",":","/","/","e","/","x","\"",";">>),
    File(Html(<<"b","a","d",".","h","t","m","l">>), "file", "ok", "denied", <<"<","s","c","r","i","p","t",">">>),
    File(Html(<<"f",".","p","n","g">>), "file", "ok", "ok", <<"<","s","c","r","i","p","t",">">>),
    File(OutputDir \o << <<"s","u","b">>, <<"h","i","d",".","j","s">> >>, "file", "err", "ok", <<"x">>),
    File(OutputDir \o << <<"s","u","b">>, <<"h",".","h","t","m","l">> >>, "file", "err", "ok", <<"<","s","c","r","i","p","t",">">>),
    File(Html(<<"l","i","b",".","j","s">>), "dir", "ok", "denied", <<>>),
    File(Html(<<"u",".","h","t","m","l">>), "file", "ok", "not_utf8", <<"<","p",">">>) >>

\* integrity.json, once main has written it: its bytes are the manifest
\* serialised, which no later step reads.
IntegrityId == Len(OutputPool) + 1
IntegrityFile == File(Html(<<"i","n","t","e","g","r","i","t","y",".","j","s","o","n">>), "file", "ok", "ok", <<>>)

FileOf(id) == IF id = IntegrityId THEN IntegrityFile ELSE OutputPool[id]

Md(name) == ContentDir \o <<name>>

\* What the content directory may hold.
ContentPool == <<
    Doc(Md(<<"a",".","m","d">>), "file", "ok", "ok", 100, "ok", 2, FALSE),
    Doc(Md(<<"b",".","m","d">>), "file", "ok", "ok", 100, "ok", 2, FALSE),
    Doc(Md(<<"c",".","m","a","r","k","d","o","w","n">>), "file", "ok", "ok", 100, "ok", 1, TRUE),
    Doc(Md(<<"b","i","g",".","m","d">>), "file", "ok", "ok", MaxFileSize + 1, "ok", 3, FALSE),
    Doc(Md(<<"b","a","d",".","m","d">>), "file", "ok", "ok", 100, "bad", 3, FALSE),
    Doc(Md(<<"n","o",".","m","d">>), "file", "ok", "denied", 100, "ok", 3, FALSE),
    Doc(Md(<<"n","o","t","e","s",".","t","x","t">>), "file", "ok", "ok", 100, "ok", 3, FALSE),
    Doc(Md(<<"h","i","d",".","m","d">>), "file", "err", "ok", 100, "ok", 3, FALSE) >>

\* The sequences of at most n distinct members of 1..m: a directory's objects
\* in the order WalkDir yields them.
Walks(m, n) ==
    UNION { {s \in [1..k -> 1..m] : \A i, j \in 1..k : i # j => s[i] # s[j]} : k \in 0..n }

Trees == Walks(Len(OutputPool), MaxFiles)
Contents == Walks(Len(ContentPool), MaxDocs)
Workers == 1..NumWorkers

VARIABLES
    pc,          \* where main is
    policy,      \* the SecurityPolicy of the run
    release,     \* whether the build has debug_assertions off
    tree,        \* the output directory, as WalkDir yields it
    content,     \* the content directory, as WalkDir yields it
    next,        \* load_posts: the shared iterator's position
    wpc,         \* load_posts: each worker's position
    cur,         \* load_posts: the document each worker holds
    got,         \* load_posts: the posts each worker has collected
    saved,       \* load_posts: the first error saved by collect
    stopped,     \* load_posts: collect has seen an error
    posts,       \* load_posts's result
    mcur,        \* generate_manifest: the walk's position
    files,       \* generate_manifest: the entries pushed
    manifest,    \* the manifest generate_manifest returned
    written,     \* the manifest written to integrity.json
    vcur,        \* validate_output: the walk's position
    violations,  \* validate_output: the violations pushed
    reported,    \* validate_output: the violations logged by error!
    vres,        \* validate_output's result
    dirty,       \* sanitize_html: the document given
    clean_out    \* sanitize_html: the text returned

loadVars == <<content, next, wpc, cur, got, saved, stopped, posts, release>>
manifestVars == <<mcur, files, manifest, written>>
validateVars == <<vcur, violations, reported, vres>>
sanitizeVars == <<dirty, clean_out>>
vars == <<pc, policy, tree, loadVars, manifestVars, validateVars, sanitizeVars>>

YieldsFile(id) == IsYieldedFile(FileOf(id))
YieldsMarkdown(id) == IsYieldedMarkdown(ContentPool[id])

\* The filtered walk's next item: the first position from i on whose object
\* passes the filters, 0 when the walk is exhausted.
NextFile(walk, i) ==
    LET js == {j \in i..Len(walk) : YieldsFile(walk[j])} IN IF js = {} THEN 0 ELSE Min(js)
NextMarkdown(walk, i) ==
    LET js == {j \in i..Len(walk) : YieldsMarkdown(walk[j])} IN IF js = {} THEN 0 ELSE Min(js)

Idle == [w \in Workers |-> "idle"]
NoDoc == [w \in Workers |-> 0]
NoPosts == [w \in Workers |-> <<>>]

InitLocals ==
    /\ next = 1 /\ wpc = Idle /\ cur = NoDoc /\ got = NoPosts
    /\ saved = None /\ stopped = FALSE /\ posts = None
    /\ mcur = 1 /\ files = <<>> /\ manifest = None /\ written = None
    /\ vcur = 1 /\ violations = <<>> /\ reported = <<>> /\ vres = "none"

NoSanitize == dirty = <<>> /\ clean_out = None

(***************************************************************************)
(* main, lines 124-136: load_config, then the output directory is cleaned. *)
(***************************************************************************)
LoadConfig ==
    /\ pc = "start"
    /\ \E config \in {"absent", "valid", "invalid"} :
           pc' = IF config = "invalid" THEN "failed" ELSE "clean"
    /\ UNCHANGED sanitizeVars
    /\ UNCHANGED <<policy, tree, loadVars, manifestVars, validateVars>>

CleanOutput ==
    /\ pc = "clean"
    /\ \E ok \in BOOLEAN :
           IF ok THEN tree' = <<>> /\ pc' = "load"
                 ELSE tree' = tree /\ pc' = "failed"
    /\ UNCHANGED sanitizeVars
    /\ UNCHANGED <<policy, loadVars, manifestVars, validateVars>>

(***************************************************************************)
(* load_posts, lines 185-210. par_bridge hands the filtered walk to the    *)
(* workers one item at a time; each worker maps its item through load_post *)
(* and keeps the results in its own list; collect joins the lists and, if  *)
(* any item was an Err, returns the first error saved instead.             *)
(***************************************************************************)
WorkerTake(w) ==
    /\ pc = "load" /\ wpc[w] = "idle" /\ ~stopped
    /\ NextMarkdown(content, next) # 0
    /\ LET j == NextMarkdown(content, next) IN
           /\ cur' = [cur EXCEPT ![w] = content[j]]
           /\ next' = j + 1
    /\ wpc' = [wpc EXCEPT ![w] = "loading"]
    /\ UNCHANGED sanitizeVars
    /\ UNCHANGED <<pc, policy, tree, content, got, saved, stopped, posts, release,
                   manifestVars, validateVars>>

WorkerLoad(w) ==
    /\ pc = "load" /\ wpc[w] = "loading"
    /\ LET r == load_post(ContentPool[cur[w]], policy) IN
           IF r.ok
           THEN /\ got' = [got EXCEPT ![w] = Append(@, r.post)]
                /\ UNCHANGED <<saved, stopped>>
           ELSE /\ saved' = IF saved = None THEN Some(r.err) ELSE saved
                /\ stopped' = TRUE
                /\ UNCHANGED got
    /\ wpc' = [wpc EXCEPT ![w] = "idle"]
    /\ cur' = [cur EXCEPT ![w] = 0]
    /\ UNCHANGED sanitizeVars
    /\ UNCHANGED <<pc, policy, tree, content, next, posts, release, manifestVars, validateVars>>

WorkerExit(w) ==
    /\ pc = "load" /\ wpc[w] = "idle"
    /\ stopped \/ NextMarkdown(content, next) = 0
    /\ wpc' = [wpc EXCEPT ![w] = "done"]
    /\ UNCHANGED sanitizeVars
    /\ UNCHANGED <<pc, policy, tree, content, next, cur, got, saved, stopped, posts, release,
                   manifestVars, validateVars>>

RECURSIVE Concat(_, _)
Concat(lists, w) == IF w > NumWorkers THEN <<>> ELSE lists[w] \o Concat(lists, w + 1)

\* collect(), `posts?`, the sort and the draft filter; the workers' lists are gone.
Collect ==
    /\ pc = "load" /\ \A w \in Workers : wpc[w] = "done"
    /\ IF saved # None
       THEN pc' = "failed" /\ posts' = None
       ELSE pc' = "generate" /\ posts' = Some(sort_and_retain(Concat(got, 1), release))
    /\ got' = NoPosts /\ wpc' = Idle /\ next' = 1
    /\ UNCHANGED sanitizeVars
    /\ UNCHANGED <<policy, tree, content, cur, saved, stopped, release,
                   manifestVars, validateVars>>

(***************************************************************************)
(* generator::generate_site, line 143: the generation stage writes the     *)
(* site's files into the output directory, or fails. The posts are not     *)
(* read after it.                                                          *)
(***************************************************************************)
GenerateSite ==
    /\ pc = "generate"
    /\ \E t \in Trees, ok \in BOOLEAN :
           /\ tree' = t
           /\ pc' = IF ok THEN "manifest" ELSE "failed"
    /\ posts' = None
    /\ UNCHANGED sanitizeVars
    /\ UNCHANGED <<policy, content, next, wpc, cur, got, saved, stopped, release,
                   manifestVars, validateVars>>

(***************************************************************************)
(* generate_manifest, lines 247-276, one file per step.                    *)
(***************************************************************************)
ManifestStep ==
    /\ pc = "manifest"
    /\ NextFile(tree, mcur) # 0
    /\ LET j == NextFile(tree, mcur)
           r == manifest_entry(FileOf(tree[j]), OutputDir, files)
       IN IF r.ok
          THEN files' = r.files /\ mcur' = j + 1 /\ pc' = pc
          ELSE files' = <<>> /\ mcur' = j /\ pc' = "failed"
    /\ UNCHANGED sanitizeVars
    /\ UNCHANGED <<policy, tree, loadVars, manifest, written, validateVars>>

ManifestFinish ==
    /\ pc = "manifest"
    /\ NextFile(tree, mcur) = 0
    /\ manifest' = Some(manifest_value(files))
    /\ pc' = "write"
    /\ UNCHANGED sanitizeVars
    /\ UNCHANGED <<policy, tree, loadVars, mcur, files, written, validateVars>>

\* main, lines 147-150: fs::write(output/integrity.json, to_string_pretty(&manifest))
WriteManifest ==
    /\ pc = "write"
    /\ \E ok \in BOOLEAN :
           IF ok THEN /\ written' = manifest
                      /\ tree' = Append(tree, IntegrityId)
                      /\ pc' = "validate"
                 ELSE /\ UNCHANGED <<written, tree>>
                      /\ pc' = "failed"
    /\ UNCHANGED sanitizeVars
    /\ UNCHANGED <<policy, loadVars, mcur, files, manifest, validateVars>>

(***************************************************************************)
(* validate_output, lines 33-68, one file per step.                        *)
(***************************************************************************)
ValidateStep ==
    /\ pc = "validate"
    /\ NextFile(tree, vcur) # 0
    /\ LET j == NextFile(tree, vcur)
           r == validate_entry(FileOf(tree[j]), policy, violations)
       IN IF r.ok
          THEN violations' = r.violations /\ vcur' = j + 1 /\ vres' = vres /\ pc' = pc
          ELSE \* the `?`: the read error is returned; violations is what the Vec held
               violations' = violations /\ vcur' = j /\ vres' = "IoError" /\ pc' = "failed"
    /\ UNCHANGED sanitizeVars
    /\ UNCHANGED <<policy, tree, loadVars, manifestVars, reported>>

\* ValidateFinish with the emptiness test off by one.
ValidateFinish_off_by_one ==
    /\ pc = "validate"
    /\ NextFile(tree, vcur) = 0
    /\ IF Len(violations) > 1
       THEN reported' = violations /\ vres' = "SecurityError" /\ pc' = "failed"
       ELSE reported' = reported /\ vres' = "Ok" /\ pc' = "done"
    /\ UNCHANGED sanitizeVars
    /\ UNCHANGED <<policy, tree, loadVars, manifestVars, vcur, violations>>

ValidateFinish ==
    /\ pc = "validate"
    /\ NextFile(tree, vcur) = 0
    /\ IF violations # <<>>
       THEN reported' = violations /\ vres' = "SecurityError" /\ pc' = "failed"
       ELSE reported' = reported /\ vres' = "Ok" /\ pc' = "done"
    /\ UNCHANGED sanitizeVars
    /\ UNCHANGED <<policy, tree, loadVars, manifestVars, vcur, violations>>

(***************************************************************************)
(* Specifications                                                          *)
(***************************************************************************)
\* A run of main: the default policy, any content directory, and whatever an
\* earlier build left in the output directory.
Init ==
    /\ pc = "start" /\ policy = DefaultPolicy /\ release \in BOOLEAN
    /\ content \in Contents
    /\ tree \in {t \in Trees : Len(t) <= 1}
    /\ InitLocals /\ NoSanitize

Next ==
    \/ LoadConfig \/ CleanOutput
    \/ \E w \in Workers : WorkerTake(w) \/ WorkerLoad(w) \/ WorkerExit(w)
    \/ Collect \/ GenerateSite
    \/ ManifestStep \/ ManifestFinish \/ WriteManifest
    \/ ValidateStep \/ ValidateFinish

Spec == Init /\ [][Next]_vars

\* validate_output on any output tree under any policy.
InitValidate ==
    /\ pc = "validate" /\ policy \in Policies /\ release = FALSE
    /\ content = <<>> /\ tree \in Trees
    /\ InitLocals /\ NoSanitize

NextValidate == ValidateStep \/ ValidateFinish

SpecValidate == InitValidate /\ [][NextValidate]_vars

\* load_posts on any content directory, in either build.
InitLoad ==
    /\ pc = "load" /\ policy = DefaultPolicy /\ release \in BOOLEAN
    /\ content \in Contents /\ tree = <<>>
    /\ InitLocals /\ NoSanitize

NextLoad ==
    \/ \E w \in Workers : WorkerTake(w) \/ WorkerLoad(w) \/ WorkerExit(w)
    \/ Collect

SpecLoad == InitLoad /\ [][NextLoad]_vars

\* sanitize_html on any document under any policy.
Sanitize ==
    /\ pc = "sanitize" /\ clean_out = None
    /\ clean_out' = Some(sanitize_html(DocumentOf(dirty), policy))
    /\ pc' = "done"
    /\ UNCHANGED <<policy, tree, loadVars, manifestVars, validateVars, dirty>>

InitSanitize ==
    /\ pc = "sanitize" /\ policy \in Policies /\ release = FALSE
    /\ content = <<>> /\ tree = <<>>
    /\ InitLocals
    /\ dirty \in Documents /\ clean_out = None

NextSanitize == Sanitize

SpecSanitize == InitSanitize /\ [][NextSanitize]_vars

(***************************************************************************)
(* Properties                                                              *)
(***************************************************************************)
Objects(walk) == {FileOf(walk[i]) : i \in 1..Len(walk)}
RegularFiles(walk) == {f \in Objects(walk) : f.kind = "file"}
YieldedFiles(walk) == {f \in Objects(walk) : IsYieldedFile(f)}
HasExt(f, exts) == \E e \in exts : extension(f.path) = Some(e)
IsHtml(f) == HasExt(f, { <<"h","t","m","l">>, <<"h","t","m">> })
IsCss(f) == HasExt(f, { <<"c","s","s">> })
IsJs(f) == HasExt(f, { <<"j","s">> })

\* Every file validate_output reads can be read as text.
AllInspectedReadable ==
    \A f \in YieldedFiles(tree) : (IsHtml(f) \/ IsCss(f)) => f.read = "ok"

\* WalkDir yields every object of the tree and every file can be read as text.
AllWalkedAndReadable ==
    \A f \in Objects(tree) : f.walk = "ok" /\ (f.kind = "file" => f.read = "ok")

Naming(vs, path) == {k \in 1..Len(vs) : vs[k][3] = path}

\* What each yielded file of the walk contributes, file by file.
RECURSIVE ViolationsFrom(_, _, _)
ViolationsFrom(walk, p, i) ==
    IF i > Len(walk) THEN <<>>
    ELSE (IF YieldsFile(walk[i]) THEN validate_entry(FileOf(walk[i]), p, <<>>).violations
          ELSE <<>>)
         \o ViolationsFrom(walk, p, i + 1)

\* C1: in every run of main the manifest is generated and written only after
\* validate_output has returned with zero violations, so a run in which
\* validate_output fails has generated and written no manifest.
C1_ManifestOnlyAfterValidation ==
    (manifest # None \/ written # None) => vres = "Ok"

\* C2: validate_output fails closed. When every inspected file is readable it
\* returns the violation error exactly when a violation was recorded, the
\* error counts every violation recorded across the files, and it returns Ok
\* only with an empty list.
C2_FailsClosed ==
    (vres # "none" /\ AllInspectedReadable) =>
        /\ vres \in {"Ok", "SecurityError"}
        /\ vres = "SecurityError" <=> violations # <<>>
        /\ violations = ViolationsFrom(tree, policy, 1)
        /\ vres = "SecurityError" => Len(reported) = Len(ViolationsFrom(tree, policy, 1))
        /\ vres = "Ok" => violations = <<>> /\ reported = <<>>

\* C2's case: a failure that reports the violations of two different files.
C2_Witness ==
    /\ vres = "SecurityError" /\ AllInspectedReadable
    /\ \E a, b \in 1..Len(reported) : reported[a][3] # reported[b][3]

\* C3: a violation detected in any file is never dropped: the run ends in the
\* one failure that is raised after every regular file of the tree has been
\* checked and that enumerates every violation found, also when another file
\* of the tree cannot be read.
C3_NoViolationDropped ==
    (vres # "none" /\ violations # <<>>) =>
        /\ vres = "SecurityError"
        /\ reported = violations
        /\ NextFile(tree, vcur) = 0

\* C4: with no_javascript set every regular .js file of the output tree has
\* exactly one violation naming it recorded by validate_output, whatever its
\* content; with the flag unset it has none.
C4_EveryJsFileRecorded ==
    vres # "none" =>
        \A f \in RegularFiles(tree) :
            IsJs(f) => Cardinality(Naming(violations, f.path))
                           = (IF policy.no_javascript THEN 1 ELSE 0)

\* The literal text <script occurs in t.
HasScriptText(t) == contains(t, <<"<","s","c","r","i","p","t">>)

\* <script occurs in t with no word character after it.
HasScriptTag(t) ==
    \E i \in 1..Len(t) :
        /\ i + 6 <= Len(t) /\ SubSeq(t, i, i + 6) = <<"<","s","c","r","i","p","t">>
        /\ (i + 7 > Len(t) \/ t[i + 7] \notin WordChars)

MatchesJsPattern(t) == \E k \in 1..Len(JS_PATTERNS) : is_match(JS_PATTERNS[k], t)

OtherFinding(f, p) ==
    \/ IsHtml(f) /\ p.no_inline_styles /\ is_match(style_regex, f.bytes)
    \/ IsHtml(f) /\ p.no_external /\ captures_iter(external_regex, f.bytes, 1) # <<>>
    \/ IsCss(f) /\ p.no_javascript /\ is_match(js_in_css, f.bytes)
    \/ IsCss(f) /\ p.no_external /\ captures_iter(import_regex, f.bytes, 1) # <<>>

EntryOf(f) ==
    [path |-> display(SubSeq(f.path, Len(OutputDir) + 1, Len(f.path))),
     size |-> Len(f.bytes), sha256 |-> Hex(Sha256(f.bytes))]

\* C7: when generate_manifest succeeds, the manifest's files list has exactly
\* one entry per regular file of the tree, with the file's relative path,
\* byte length and SHA-256 digest.
C7_OneEntryPerRegularFile ==
    pc = "write" =>
        LET entries == manifest[1].files IN
        /\ Len(entries) = Cardinality(RegularFiles(tree))
        /\ \A f \in RegularFiles(tree) :
               Cardinality({k \in 1..Len(entries) : entries[k] = EntryOf(f)}) = 1

\* C8: an I/O failure while walking or reading the output tree makes
\* generate_manifest return an error: it returns no manifest that omits a
\* file or directory entry it failed to access.
C8_NoSilentOmission ==
    pc = "write" =>
        \A f \in Objects(tree) : f.walk = "ok" /\ (f.kind = "file" => f.read # "denied")

RECURSIVE HasElement(_, _)
HasElement(nodes, tag) ==
    \E i \in 1..Len(nodes) :
        nodes[i].type = "elem"
        /\ (to_lowercase(nodes[i].tag) = tag \/ HasElement(nodes[i].kids, tag))

\* The p elements of a document that carry no attribute, outside any script
\* or style element.
RECURSIVE Paragraphs(_)
Paragraphs(nodes) ==
    UNION { IF nodes[i].type = "text" \/ to_lowercase(nodes[i].tag) \in { <<"s","c","r","i","p","t">>, <<"s","t","y","l","e">> }
            THEN {}
            ELSE (IF to_lowercase(nodes[i].tag) = <<"p">> /\ nodes[i].attrs = <<>>
                  THEN {nodes[i]} ELSE {})
                 \cup Paragraphs(nodes[i].kids)
            : i \in 1..Len(nodes) }

RECURSIVE LoadedInOrder(_, _)
LoadedInOrder(walk, i) ==
    IF i > Len(walk) THEN <<>>
    ELSE (IF YieldsMarkdown(walk[i]) /\ load_post(ContentPool[walk[i]], policy).ok
          THEN <<load_post(ContentPool[walk[i]], policy).post>> ELSE <<>>)
         \o LoadedInOrder(walk, i + 1)

\* C10: when every file loads, load_posts returns the same sequence whatever
\* the workers' interleaving: that of the run in which the documents are
\* loaded one after the other.
C10_SameForEveryInterleaving ==
    (pc = "generate" /\ posts # None) =>
        posts[1] = sort_and_retain(LoadedInOrder(content, 1), release)

=============================================================================
